---- MODULE Spec2Model ----
(***************************************************************************)
(* The MNIST ingestion / partition / evaluation pipeline of mnist.go.      *)
(*                                                                         *)
(* One run of mnistStart is modelled as a sequential program whose         *)
(* position is pc.  The file system (the four archives, the image          *)
(* directory, the per-sample image files and the manifest) is part of the  *)
(* state and starts in an arbitrary condition, because the program is      *)
(* re-run on machines where earlier runs, failed runs or the user left     *)
(* files behind.                                                           *)
(*                                                                         *)
(* Abstractions: Images and Labels are represented by their lengths        *)
(* (nImages, nLabels); a training session is represented by the index of   *)
(* the sample it was built from; every floating-point configuration value  *)
(* is kept in tenths.  The calls into package blueprint (download, unzip,  *)
(* decode, save, train, infer, evaluate) are not part of the sources; each *)
(* is a nondeterministic choice among the outcomes its interface allows.   *)
(*                                                                         *)
(* src/unnamed/part_000 is an earlier iteration of the same file: its      *)
(* EnsureMNISTDownloads and LoadMNIST are the ones modelled here, its      *)
(* mnistSetup has no data-file check and its mnistStart stops after        *)
(* mnistSetup.  The model follows mnist.go.                                *)
(***************************************************************************)
EXTENDS Integers, Sequences, FiniteSets, TLC

VARIABLES
    pc,               \* position of the run inside mnistStart
    trace,            \* history: the external effects of the run, in order
    gz,               \* gz[a]: the compressed file of archive a exists
    raw,              \* raw[a]: the decompressed file of archive a exists
    dirExists,        \* ./host/MNIST/images exists
    manifest,         \* ./host/MNIST/mnist_data.json exists
    imagesOnDisk,     \* every per-sample image file of the derived cache exists
    manifestAtStart,  \* history: manifest when mnistSetup was entered
    imagesAtStart,    \* history: imagesOnDisk when mnistSetup was entered
    shortCircuit,     \* mnistSetup took the "data file already exists" branch
    gzAtCall,         \* history: gz when EnsureMNISTDownloads was called
    rawAtCall,        \* history: raw when EnsureMNISTDownloads was called
    fileIdx,          \* loop variable of EnsureMNISTDownloads (1-based)
    ensureResult,     \* "none" | "nil" | "err": what EnsureMNISTDownloads returned
    nImages,          \* len(Images)
    nLabels,          \* len(Labels)
    imagesLoaded,     \* LoadBinaryDatasetImages returned without error
    labelErr,         \* LoadLabels returned an error
    splitIndex,       \* local splitIndex of setupModelTrainingSession
    TrainingSessions, \* global slice, as the sequence of sample indices
    TestingSessions,  \* global slice, as the sequence of sample indices
    trainingResult,   \* the six values returned for TrainingSessions
    testingResult,    \* the six values returned for TestingSessions
    meta              \* bp.Config.Metadata

vars == <<pc, trace, gz, raw, dirExists, manifest, imagesOnDisk, manifestAtStart,
          imagesAtStart, shortCircuit, gzAtCall, rawAtCall, fileIdx, ensureResult,
          nImages, nLabels, imagesLoaded, labelErr, splitIndex, TrainingSessions,
          TestingSessions, trainingResult, testingResult, meta>>

----------------------------------------------------------------------------
(* Bounds of the model *)

MaxSmall == 3       \* sample counts 0..MaxSmall are explored
MaxOverCap == 28    \* ... and CapK + 2 and CapK + MaxOverCap
MaxPartial == 1     \* a failed label load leaves 0..MaxPartial labels
MaxOutcome == 2     \* distinct results the evaluator may return

(* Program constants *)

CapK == 100         \* "if i >= 100 { break }"
NumArchives == 4    \* len(files)

Archives == 1..NumArchives

\* files[]: 1 train-images, 2 train-labels, 3 t10k-images, 4 t10k-labels
TrainImages == 1
TrainLabels == 2

SampleCounts == (0..MaxSmall) \cup {CapK + 2, CapK + MaxOverCap}

MetricNames == {"ExactAccuracy", "GenerousAccuracy", "ForgivenessAccuracy",
                "ExactErrorCount", "AverageGenerousError", "ForgivenessErrorCount"}

\* The k-th result the evaluator may return: six pairwise different values.
MkMetrics(k) ==
    [ExactAccuracy |-> 6 * k + 1, GenerousAccuracy |-> 6 * k + 2,
     ForgivenessAccuracy |-> 6 * k + 3, ExactErrorCount |-> 6 * k + 4,
     AverageGenerousError |-> 6 * k + 5, ForgivenessErrorCount |-> 6 * k + 6]

MetricRecords == {MkMetrics(k) : k \in 1..MaxOutcome}

NoMetrics == [m \in MetricNames |-> 0]

\* blueprint.NewBlueprint(nil): a zero-valued metadata record.
NewMetadata ==
    [ForgivenessThreshold |-> 0, BiasAdjustmentIncrement |-> 0,
     WeightAdjustmentIncrement |-> 0,
     LastTrainingAccuracy |-> 0, LastTestAccuracy |-> 0,
     LastTestAccuracyGenerous |-> 0, LastTestAccuracyForgiveness |-> 0,
     LastTrainingExactErrorCount |-> 0, LastTestExactErrorCount |-> 0,
     LastTrainingAverageGenerousError |-> 0, LastTestAverageGenerousError |-> 0,
     LastTrainingForgivenessErrorCount |-> 0, LastTestForgivenessErrorCount |-> 0,
     TrainingSessions |-> <<>>, TestingSessions |-> <<>>]

Event(op, arg) == <<op, arg>>

Log(op, arg) == trace' = Append(trace, Event(op, arg))

Count(op, arg) == Cardinality({i \in 1..Len(trace) : trace[i] = Event(op, arg)})

Happened(op) == \E i \in 1..Len(trace) : trace[i][1] = op

----------------------------------------------------------------------------
Init ==
    /\ pc = "start"
    /\ trace = <<>>
    /\ gz \in [Archives -> BOOLEAN]
    /\ raw \in [Archives -> BOOLEAN]
    /\ dirExists \in BOOLEAN
    /\ manifest \in BOOLEAN
    /\ imagesOnDisk \in BOOLEAN
    /\ (manifest \/ imagesOnDisk) => dirExists
    /\ manifestAtStart = FALSE
    /\ imagesAtStart = FALSE
    /\ shortCircuit = FALSE
    /\ gzAtCall = [a \in Archives |-> FALSE]
    /\ rawAtCall = [a \in Archives |-> FALSE]
    /\ fileIdx = 0
    /\ ensureResult = "none"
    /\ nImages = 0
    /\ nLabels = 0
    /\ imagesLoaded = FALSE
    /\ labelErr = FALSE
    /\ splitIndex = 0
    /\ TrainingSessions = <<>>
    /\ TestingSessions = <<>>
    /\ trainingResult = NoMetrics
    /\ testingResult = NoMetrics
    /\ meta = NewMetadata

fsVars == <<gz, raw, dirExists, manifest, imagesOnDisk>>
setupVars == <<manifestAtStart, imagesAtStart, shortCircuit>>
ensureVars == <<gzAtCall, rawAtCall, fileIdx, ensureResult>>
loadVars == <<nImages, nLabels, imagesLoaded, labelErr>>
sessionVars == <<splitIndex, TrainingSessions, TestingSessions>>
evalVars == <<trainingResult, testingResult>>

----------------------------------------------------------------------------
(* modelMnistSetup *)

ModelMnistSetup ==
    /\ pc = "start"
    /\ meta' = [meta EXCEPT !.ForgivenessThreshold = 8,
                            !.BiasAdjustmentIncrement = 100,
                            !.WeightAdjustmentIncrement = 5]
    /\ Log("configure", 0)
    /\ pc' = "mnistSetup"
    /\ UNCHANGED <<fsVars, setupVars, ensureVars, loadVars, sessionVars, evalVars>>

----------------------------------------------------------------------------
(* mnistSetup: the data-file check and the directory *)

\* os.Stat(dataFile) succeeded: only the manifest decides, the image files
\* are not looked at.
CacheHit_BothPresent(manifestPresent, imagesPresent) ==
    manifestPresent /\ imagesPresent

CacheHit(manifestPresent, imagesPresent) == manifestPresent

StatDataFile ==
    /\ pc = "mnistSetup"
    /\ manifestAtStart' = manifest
    /\ imagesAtStart' = imagesOnDisk
    /\ shortCircuit' = CacheHit(manifest, imagesOnDisk)
    /\ pc' = IF CacheHit(manifest, imagesOnDisk) THEN "load_images" ELSE "mkdir"
    /\ UNCHANGED <<trace, fsVars, ensureVars, loadVars, sessionVars, evalVars, meta>>

\* os.MkdirAll: creates the directory (a no-op when it exists) or fails, and a
\* failure is fatal.  On success EnsureMNISTDownloads is called next.
MkdirAll ==
    /\ pc = "mkdir"
    /\ \/ /\ dirExists' = TRUE
          /\ Log("mkdir", 0)
          /\ gzAtCall' = gz
          /\ rawAtCall' = raw
          /\ fileIdx' = 1
          /\ pc' = "ensure"
          /\ UNCHANGED ensureResult
       \/ /\ ~dirExists
          /\ pc' = "fatal"
          /\ UNCHANGED <<trace, dirExists, ensureVars>>
    /\ UNCHANGED <<gz, raw, manifest, imagesOnDisk, setupVars, loadVars,
                   sessionVars, evalVars, meta>>

----------------------------------------------------------------------------
(* EnsureMNISTDownloads *)

\* os.IsNotExist(os.Stat(localFile)), where localFile is the .gz name.
NeedsDownload(a) == ~gz[a]

\* The head of "for _, file := range files": leave the loop and return nil,
\* enter the download branch, or log "already exists" and go on.
EnsureLoop ==
    /\ pc = "ensure"
    /\ IF fileIdx > NumArchives
       THEN /\ ensureResult' = "nil"
            /\ pc' = "load_images"
            /\ UNCHANGED fileIdx
       ELSE IF NeedsDownload(fileIdx)
       THEN /\ pc' = "download"
            /\ UNCHANGED <<fileIdx, ensureResult>>
       ELSE /\ fileIdx' = fileIdx + 1
            /\ pc' = "ensure"
            /\ UNCHANGED ensureResult
    /\ UNCHANGED <<trace, fsVars, setupVars, gzAtCall, rawAtCall, loadVars,
                   sessionVars, evalVars, meta>>

\* "if err := EnsureMNISTDownloads(); err != nil { log.Fatalf(...) }"
AfterEnsureError_Ignored == "load_images"

AfterEnsureError == "fatal"

\* bp.DownloadFile: on success the compressed file exists; on failure the
\* error is returned to mnistSetup, which ends the process (log.Fatalf).  A
\* failed download may leave a partial file behind.
DownloadFile ==
    /\ pc = "download"
    /\ Log("download", fileIdx)
    /\ \/ /\ gz' = [gz EXCEPT ![fileIdx] = TRUE]
          /\ pc' = "unzip"
          /\ UNCHANGED ensureResult
       \/ /\ \E partial \in BOOLEAN : gz' = [gz EXCEPT ![fileIdx] = partial]
          /\ ensureResult' = "err"
          /\ pc' = AfterEnsureError
    /\ UNCHANGED <<raw, dirExists, manifest, imagesOnDisk, setupVars, gzAtCall,
                   rawAtCall, fileIdx, loadVars, sessionVars, evalVars, meta>>

\* bp.UnzipFile: on success the decompressed file exists beside the
\* compressed one; on failure the error is returned (fatal) and a partial
\* decompressed file may be left behind.
UnzipFile ==
    /\ pc = "unzip"
    /\ Log("unzip", fileIdx)
    /\ \/ /\ raw' = [raw EXCEPT ![fileIdx] = TRUE]
          /\ fileIdx' = fileIdx + 1
          /\ pc' = "ensure"
          /\ UNCHANGED ensureResult
       \/ /\ \E partial \in BOOLEAN :
                raw' = [raw EXCEPT ![fileIdx] = raw[fileIdx] \/ partial]
          /\ ensureResult' = "err"
          /\ pc' = AfterEnsureError
          /\ UNCHANGED fileIdx
    /\ UNCHANGED <<gz, dirExists, manifest, imagesOnDisk, setupVars, gzAtCall,
                   rawAtCall, loadVars, sessionVars, evalVars, meta>>

----------------------------------------------------------------------------
(* LoadMNIST *)

\* bp.LoadBinaryDatasetImages("train-images-idx3-ubyte"): needs the
\* decompressed file; an error is fatal.
LoadImages ==
    /\ pc = "load_images"
    /\ Log("load_images", 0)
    /\ \/ /\ raw[TrainImages]
          /\ \E n \in SampleCounts : nImages' = n
          /\ imagesLoaded' = TRUE
          /\ pc' = "load_labels"
       \/ /\ pc' = "fatal"
          /\ UNCHANGED <<nImages, imagesLoaded>>
    /\ UNCHANGED <<fsVars, setupVars, ensureVars, nLabels, labelErr, sessionVars,
                   evalVars, meta>>

\* Where mnistSetup goes when LoadMNIST returns: back to mnistStart on the
\* short-circuit branch, on to SaveImagesAndData otherwise.
AfterLoadMNIST == IF shortCircuit THEN "split" ELSE "save"

\* bp.LoadLabels("train-labels-idx1-ubyte"): on an error the value of
\* fmt.Errorf is discarded and LoadMNIST returns normally, Labels holding
\* whatever came back with the error.
OnLabelError == AfterLoadMNIST

LoadLabels ==
    /\ pc = "load_labels"
    /\ Log("load_labels", 0)
    /\ \/ /\ raw[TrainLabels]
          /\ nLabels' = nImages
          /\ labelErr' = FALSE
          /\ pc' = AfterLoadMNIST
       \/ /\ \E l \in 0..MaxPartial : l <= nImages /\ nLabels' = l
          /\ labelErr' = TRUE
          /\ pc' = OnLabelError
    /\ UNCHANGED <<fsVars, setupVars, ensureVars, nImages, imagesLoaded,
                   sessionVars, evalVars, meta>>

\* bp.ConvertLabelsToInts and bp.SaveImagesAndData: writes every image file
\* and the manifest, or fails (fatal) with the manifest not written.
SaveImagesAndData ==
    /\ pc = "save"
    /\ Log("save", 0)
    /\ \/ /\ imagesOnDisk' = TRUE
          /\ manifest' = TRUE
          /\ pc' = "split"
       \/ /\ pc' = "fatal"
          /\ UNCHANGED <<imagesOnDisk, manifest>>
    /\ UNCHANGED <<gz, raw, dirExists, setupVars, ensureVars, loadVars,
                   sessionVars, evalVars, meta>>

----------------------------------------------------------------------------
(* setupModelTrainingSession *)

\* int(float64(totalImages) * 0.8).  The double nearest to 0.8 exceeds it by
\* a factor of 1 + 2^-54, which is below half a unit in the last place of
\* every product, and 0.8 * n is an integer or at least 0.2 away from one:
\* for every n below 2^52 the truncated product is the integer below.
SplitIndex_Rounded(n) == (n * 8 + 5) \div 10

SplitIndex(n) == (n * 4) \div 5

\* createTrainingSession(index): reads Labels[index] and Images[index]; the
\* session is represented by index.
createTrainingSession(index) == index

\* Labels[index] is out of range: a run-time panic.
IndexPanics(index) == index >= nLabels

\* The iterations a loop "for i := from; i < to; i++ { ...; if i >= 100
\* { break } }" enters: i is reached when no earlier iteration broke out.
Entered(from, to) == {i \in from..(to - 1) : \A j \in from..(i - 1) : ~(j >= CapK)}

\* The loop body "session := createTrainingSession(i); append(...)" run over
\* the entered iterations in ascending order: the sessions appended to acc
\* before the loop ends or createTrainingSession panics.
SessionLoop(from, to, acc) ==
    LET built == {i \in Entered(from, to) : \A j \in from..i : ~IndexPanics(j)}
    IN  [sessions |-> acc \o [k \in 1..Cardinality(built) |->
                                  createTrainingSession(from + k - 1)],
         panic |-> \E i \in Entered(from, to) : IndexPanics(i)]

\* "for i := 0; i < splitIndex; i++": the training sessions.
TrainingLoop(split, acc) == SessionLoop(0, split, acc)

\* "for i := splitIndex; i < totalImages; i++": the testing sessions.
TestingLoop(split, total, acc) == SessionLoop(split, total, acc)

SetupModelTrainingSession ==
    /\ pc = "split"
    /\ LET totalImages == nImages
           split == SplitIndex(totalImages)
           train == TrainingLoop(split, TrainingSessions)
           test == TestingLoop(split, totalImages, TestingSessions)
       IN  /\ splitIndex' = split
           /\ TrainingSessions' = train.sessions
           /\ TestingSessions' = IF train.panic THEN TestingSessions ELSE test.sessions
           /\ pc' = IF train.panic \/ test.panic THEN "panic" ELSE "train"
    /\ Log("sessions", 0)
    /\ UNCHANGED <<fsVars, setupVars, ensureVars, loadVars, evalVars, meta>>

----------------------------------------------------------------------------
(* mnistStart after the sessions are built *)

\* bp.TrainDenseLayer(0, TrainingSessions)
TrainDenseLayer ==
    /\ pc = "train"
    /\ Log("train", 0)
    /\ pc' = "variability"
    /\ UNCHANGED <<fsVars, setupVars, ensureVars, loadVars, sessionVars, evalVars,
                   meta>>

\* testFeedforwardOutputVariability: two Feedforward calls, or none when
\* there are fewer than two training sessions.
TestFeedforwardOutputVariability ==
    /\ pc = "variability"
    /\ Log("variability", IF Len(TrainingSessions) < 2 THEN 0 ELSE 2)
    /\ pc' = "eval_training"
    /\ UNCHANGED <<fsVars, setupVars, ensureVars, loadVars, sessionVars, evalVars,
                   meta>>

----------------------------------------------------------------------------
(* evaluateModelPerformance *)

\* bp.EvaluateModelPerformance(TrainingSessions)
EvaluateTraining ==
    /\ pc = "eval_training"
    /\ Log("evaluate", 1)
    /\ \E r \in MetricRecords : trainingResult' = r
    /\ pc' = "eval_testing"
    /\ UNCHANGED <<fsVars, setupVars, ensureVars, loadVars, sessionVars,
                   testingResult, meta>>

EvaluateTesting_TrainingAgain ==
    /\ pc = "eval_testing"
    /\ Log("evaluate", 1)
    /\ \E r \in MetricRecords : testingResult' = r
    /\ pc' = "update_metadata"
    /\ UNCHANGED <<fsVars, setupVars, ensureVars, loadVars, sessionVars,
                   trainingResult, meta>>

\* bp.EvaluateModelPerformance(TestingSessions)
EvaluateTesting ==
    /\ pc = "eval_testing"
    /\ Log("evaluate", 2)
    /\ \E r \in MetricRecords : testingResult' = r
    /\ pc' = "update_metadata"
    /\ UNCHANGED <<fsVars, setupVars, ensureVars, loadVars, sessionVars,
                   trainingResult, meta>>

\* The twelve assignments to bp.Config.Metadata.
StoreMetrics(md, training, testing, trainList, testList) ==
    [md EXCEPT
        !.LastTrainingAccuracy = training.ExactAccuracy,
        !.LastTestAccuracy = testing.ExactAccuracy,
        !.LastTestAccuracyGenerous = testing.GenerousAccuracy,
        !.LastTestAccuracyForgiveness = testing.ForgivenessAccuracy,
        !.LastTrainingExactErrorCount = training.ExactErrorCount,
        !.LastTestExactErrorCount = testing.ExactErrorCount,
        !.LastTrainingAverageGenerousError = training.AverageGenerousError,
        !.LastTestAverageGenerousError = testing.AverageGenerousError,
        !.LastTrainingForgivenessErrorCount = training.ForgivenessErrorCount,
        !.LastTestForgivenessErrorCount = testing.ForgivenessErrorCount,
        !.TrainingSessions = trainList,
        !.TestingSessions = testList]

UpdateMetadata ==
    /\ pc = "update_metadata"
    /\ meta' = StoreMetrics(meta, trainingResult, testingResult,
                            TrainingSessions, TestingSessions)
    /\ Log("metadata", 0)
    /\ pc' = "done"
    /\ UNCHANGED <<fsVars, setupVars, ensureVars, loadVars, sessionVars, evalVars>>

----------------------------------------------------------------------------
Next ==
    \/ ModelMnistSetup
    \/ StatDataFile
    \/ MkdirAll
    \/ EnsureLoop
    \/ DownloadFile
    \/ UnzipFile
    \/ LoadImages
    \/ LoadLabels
    \/ SaveImagesAndData
    \/ SetupModelTrainingSession
    \/ TrainDenseLayer
    \/ TestFeedforwardOutputVariability
    \/ EvaluateTraining
    \/ EvaluateTesting
    \/ UpdateMetadata

Spec == Init /\ [][Next]_vars

----------------------------------------------------------------------------
(* Vocabulary of the properties *)

EnsureCalled == fileIdx >= 1

CheckDone == pc \notin {"start", "mnistSetup"}

MnistSetupReturned ==
    pc \in {"split", "train", "variability", "eval_training", "eval_testing",
            "update_metadata", "done", "panic"}

SessionsBuilt == Happened("sessions")

LastRunFields ==
    {"LastTrainingAccuracy", "LastTestAccuracy", "LastTestAccuracyGenerous",
     "LastTestAccuracyForgiveness", "LastTrainingExactErrorCount",
     "LastTestExactErrorCount", "LastTrainingAverageGenerousError",
     "LastTestAverageGenerousError", "LastTrainingForgivenessErrorCount",
     "LastTestForgivenessErrorCount"}

StoredMetricValues == {meta[f] : f \in LastRunFields}

\* seq lists lo, lo + 1, ... in ascending order and stays below hi
IsRangePrefix(seq, lo, hi) ==
    /\ Len(seq) <= IF hi > lo THEN hi - lo ELSE 0
    /\ \A k \in 1..Len(seq) : seq[k] = lo + k - 1

----------------------------------------------------------------------------
(* C1 - as claimed: whenever EnsureMNISTDownloads has returned nil, the    *)
(* decompressed file of every one of the four archives exists.             *)
C1_AllDecompressedAfterEnsure ==
    ensureResult = "nil" => \A a \in Archives : raw[a]

(* C2 - as claimed: an archive whose decompressed file is present when     *)
(* EnsureMNISTDownloads is called is skipped entirely: it is neither       *)
(* downloaded nor decompressed and its files stay as they were.            *)
C2_DecompressedPresentIsSkipped ==
    \A a \in Archives :
        (EnsureCalled /\ rawAtCall[a]) =>
            /\ Count("download", a) = 0
            /\ Count("unzip", a) = 0
            /\ ~(pc = "download" /\ fileIdx = a)
            /\ gz[a] = gzAtCall[a]
            /\ raw[a]

(* C3 - as claimed: when the manifest exists at the start of mnistSetup    *)
(* the run downloads, decompresses, creates and writes nothing, and once   *)
(* mnistSetup has returned both Images and Labels have been loaded.        *)
C3_ShortCircuitLoadsStore ==
    manifestAtStart =>
        /\ ~Happened("mkdir") /\ ~Happened("download") /\ ~Happened("unzip")
        /\ ~Happened("save")
        /\ MnistSetupReturned =>
              imagesLoaded /\ ~labelErr /\ nLabels = nImages

(* C4 - as claimed: the short-circuit path is taken only when the manifest *)
(* and the image files are both present; if either is missing the whole    *)
(* derived cache has been rebuilt when mnistSetup returns.                 *)
C4_CacheAllOrNothing ==
    (CheckDone /\ (~manifestAtStart \/ ~imagesAtStart)) =>
        /\ ~shortCircuit
        /\ MnistSetupReturned => (manifest /\ imagesOnDisk /\ Count("save", 0) = 1)

(* C4 - amended: the cache check looks at the manifest alone.  The         *)
(* short-circuit path is taken exactly when the manifest is present at the *)
(* start of mnistSetup, whatever the state of the image files, and then    *)
(* nothing of the cache is written; when the manifest is missing, every    *)
(* run in which mnistSetup returns has rebuilt all image files and the     *)
(* manifest by one SaveImagesAndData call.                                 *)
C4_CacheKeyedOnManifest ==
    CheckDone =>
        /\ shortCircuit <=> manifestAtStart
        /\ shortCircuit =>
              (~Happened("save") /\ manifest /\ imagesOnDisk = imagesAtStart)
        /\ (~manifestAtStart /\ MnistSetupReturned) =>
              (manifest /\ imagesOnDisk /\ Count("save", 0) = 1)

C4_Witness ==
    /\ MnistSetupReturned
    /\ ~manifestAtStart /\ imagesAtStart
    /\ manifest /\ imagesOnDisk

(* C5 - as claimed: once loading the labels has returned an error, no      *)
(* manifest write, session construction, training or evaluation happens.   *)
C5_LabelErrorIsFatal ==
    labelErr =>
        /\ ~Happened("save") /\ ~Happened("sessions")
        /\ ~Happened("train") /\ ~Happened("evaluate")

(* C6 - once setupModelTrainingSession has run on N samples, the split     *)
(* index is floor(0.8 * N); the training sessions are, in ascending order, *)
(* a prefix of the indices [0, split) and the testing sessions a prefix of *)
(* [split, N); no index is in both; and when the cap does not bind         *)
(* (N <= K + 1) the two subsets are the whole ranges, so their lengths add *)
(* up to N.                                                                *)
C6_PositionalSplit ==
    SessionsBuilt =>
        /\ 5 * splitIndex <= 4 * nImages
        /\ 4 * nImages < 5 * (splitIndex + 1)
        /\ IsRangePrefix(TrainingSessions, 0, splitIndex)
        /\ IsRangePrefix(TestingSessions, splitIndex, nImages)
        /\ \A i \in 1..Len(TrainingSessions) : \A j \in 1..Len(TestingSessions) :
              TrainingSessions[i] # TestingSessions[j]
        /\ (pc # "panic" /\ nImages <= CapK + 1) =>
              /\ Len(TrainingSessions) = splitIndex
              /\ Len(TrainingSessions) + Len(TestingSessions) = nImages

C6_Witness ==
    /\ pc = "train"
    /\ nImages = CapK + 2
    /\ Len(TrainingSessions) = splitIndex
    /\ Len(TestingSessions) > 1
    /\ Len(TestingSessions) < nImages - splitIndex

(* C7 - as claimed: with the cap K = 100, each subset holds at most K + 1  *)
(* sessions and every retained session was built from an index <= K.       *)
C7_CapBoundsIndices ==
    SessionsBuilt =>
        /\ Len(TrainingSessions) <= CapK + 1
        /\ Len(TestingSessions) <= CapK + 1
        /\ \A i \in 1..Len(TrainingSessions) : TrainingSessions[i] <= CapK
        /\ \A i \in 1..Len(TestingSessions) : TestingSessions[i] <= CapK

(* C8 - as claimed: after evaluateModelPerformance every one of the six    *)
(* values returned for the training subset and of the six returned for the *)
(* testing subset is stored in the metadata record, and the stored session *)
(* lists are the evaluated ones (stated for the runs whose loads returned  *)
(* no error).                                                              *)
C8_AllTwelveMetricsStored ==
    (pc = "done" /\ ~labelErr) =>
        /\ \A m \in MetricNames : trainingResult[m] \in StoredMetricValues
        /\ \A m \in MetricNames : testingResult[m] \in StoredMetricValues
        /\ meta.TrainingSessions = TrainingSessions
        /\ meta.TestingSessions = TestingSessions

(* C9 - a download or decompress failure is fatal and never retried: no    *)
(* archive is downloaded or decompressed twice in a run, and once          *)
(* EnsureMNISTDownloads has returned an error the failing step is the last *)
(* thing the run did: the later archives are untouched, and no decoding,   *)
(* manifest write, session construction or evaluation follows.             *)
C9_AcquisitionFailureIsFatal ==
    /\ \A a \in Archives : Count("download", a) <= 1 /\ Count("unzip", a) <= 1
    /\ ensureResult = "err" =>
          /\ pc = "fatal"
          /\ trace[Len(trace)] \in {Event("download", fileIdx), Event("unzip", fileIdx)}
          /\ \A a \in Archives :
                a > fileIdx => (Count("download", a) = 0 /\ Count("unzip", a) = 0)
          /\ ~Happened("load_images") /\ ~Happened("load_labels")
          /\ ~Happened("save") /\ ~Happened("sessions")
          /\ ~Happened("train") /\ ~Happened("evaluate") /\ ~Happened("metadata")

C9_Witness ==
    /\ ensureResult = "err"
    /\ fileIdx = 2
    /\ Count("unzip", 1) = 1
    /\ Count("download", 2) = 1
    /\ Count("unzip", 2) = 1

\* The place of an effect in the order of the stages of mnistStart.
StageRank(e) ==
    CASE e[1] = "configure" -> 1
      [] e[1] = "mkdir" -> 2
      [] e[1] \in {"download", "unzip"} -> 3
      [] e[1] = "load_images" -> 4
      [] e[1] = "load_labels" -> 5
      [] e[1] = "save" -> 6
      [] e[1] = "sessions" -> 7
      [] e[1] = "train" -> 8
      [] e[1] = "variability" -> 9
      [] e[1] = "evaluate" -> 9 + e[2]
      [] e[1] = "metadata" -> 12

(* C10 - the stages of a run happen strictly in order: the network is      *)
(* configured once, before anything else; acquisition precedes decoding;   *)
(* images and labels are decoded before the one session-construction       *)
(* stage; the sessions are built before the first evaluation; and the      *)
(* evaluator has been called exactly once on the training subset and then  *)
(* exactly once on the testing subset before a metric is written.          *)
C10_StagesInOrder ==
    /\ \A i, j \in 1..Len(trace) :
          i < j =>
             \/ StageRank(trace[i]) < StageRank(trace[j])
             \/ /\ StageRank(trace[i]) = 3 /\ StageRank(trace[j]) = 3
                /\ \/ trace[i][2] < trace[j][2]
                   \/ /\ trace[i][2] = trace[j][2]
                      /\ trace[i][1] = "download" /\ trace[j][1] = "unzip"
    /\ trace # <<>> => trace[1] = Event("configure", 0)
    /\ pc # "start" => Count("configure", 0) = 1
    /\ SessionsBuilt => (Count("load_images", 0) = 1 /\ Count("load_labels", 0) = 1)
    /\ Happened("evaluate") => SessionsBuilt
    /\ Count("evaluate", 2) > 0 => Count("evaluate", 1) = 1
    /\ (\E f \in LastRunFields : meta[f] # 0) =>
          (Count("evaluate", 1) = 1 /\ Count("evaluate", 2) = 1 /\ pc = "done")

C10_Witness ==
    /\ pc = "done"
    /\ Happened("download") /\ Happened("unzip") /\ Happened("save")
    /\ \E f \in LastRunFields : meta[f] # 0

====
